---- MODULE Spec2Model ----
(***************************************************************************)
(* NSE Stock Analyzer (Finpro-Sam/stock_analyser): the Streamlit script    *)
(* of src/app.py and src/streamlit_stock_app.py as a state machine.        *)
(*                                                                         *)
(* One script run is: load the CSV rows (cached), filter them to the date  *)
(* range of the date widget, analyse every ISIN group (mean, sample        *)
(* standard deviation, flags), build the ISIN -> ticker map, select a      *)
(* stock, render the summaries, offer the filtered rows for download.      *)
(* Streamlit runs the script again, from the top, on every interaction.    *)
(*                                                                         *)
(* Numbers are exact: prices and volumes are integers, the two sliders     *)
(* take integer values, and every comparison the script makes in floating  *)
(* point is made here on the cross-multiplied, squared integers, so no     *)
(* division or square root is taken.                                       *)
(***************************************************************************)
EXTENDS Integers, Sequences, FiniteSets, TLC

(***************************************************************************)
(* Bounds of the model.                                                    *)
(***************************************************************************)
MaxRecs == 3      \* rows of a generated CSV file
MaxPrice == 2     \* generated closing prices are 1..MaxPrice
MaxVol == 1       \* generated volumes are 0..MaxVol
MaxDate == 3      \* generated trade dates are 1..MaxDate
MaxRuns == 2      \* script runs of one session

(***************************************************************************)
(* Values of the program.                                                  *)
(***************************************************************************)
NaN == -1                  \* an empty CSV cell: NaN in a number or ISIN column, NaT once parsed as a date
MinStdThreshold == 1       \* st.sidebar.slider("Standard Deviation Threshold", 1.0, 5.0, 2.0)
DefaultStdThreshold == 2
MinVolMultiplier == 1      \* st.sidebar.slider("Volume Spike Multiplier", 1.0, 10.0, 3.0)
DefaultVolMultiplier == 3

Variants == {"app", "streamlit_stock_app"}
ISINs == {1, 2}
Tickers == {"T1", "T2"}

RawColumns == {"TradDt", "ISIN", "TckrSymb", "ClsPric", "TtlTradgVol", "OpnPric"}
DerivedColumns == {"Upper_Band", "Lower_Band", "Price_Alert", "Volume_Spike"}

VARIABLES
  variant,          \* which of the two scripts runs
  raw_csv,          \* the rows of the CSV files, in file order
  tie_order,        \* how this build's sort orders rows of equal date
  cache,            \* st.cache_data: the frame load_all_csvs_from_github returned
  pc,               \* position of the script
  run,              \* number of the current script run
  start_date, end_date,               \* the date widget
  std_threshold, vol_multiplier,      \* the two sliders
  df,               \* the filtered frame
  buzzing_isins, alert_df, volume_df, analysis_frames,
  isin_map,
  selected_ticker, selected_isin,
  buzz_data,        \* the table of the "Buzzing Stocks" expander
  csv,              \* the bytes handed to the download button
  error,            \* the exception the top-level except caught
  warnings,         \* the st.warning messages shown
  prev              \* the summary of the previous run of the session

vars == <<variant, raw_csv, tie_order, cache, pc, run, start_date, end_date,
          std_threshold, vol_multiplier, df, buzzing_isins, alert_df, volume_df,
          analysis_frames, isin_map, selected_ticker, selected_isin, buzz_data,
          csv, error, warnings, prev>>

(***************************************************************************)
(* Frames.  A row is a record; a frame is its columns and its rows.        *)
(***************************************************************************)
RawRow(d, i, t, p, v) == [Date |-> d, ISIN |-> i, Ticker |-> t, Price |-> p, Volume |-> v]

EmptyFrame == [columns |-> {}, rows |-> <<>>]

NoFrames == [i \in {} |-> <<>>]

NoMap == [i \in {} |-> "T1"]

Range(s) == {s[j] : j \in 1..Len(s)}

RECURSIVE Sum(_)
Sum(xs) ==
  IF xs = <<>> THEN 0
  ELSE (IF Head(xs) = NaN THEN 0 ELSE Head(xs)) + Sum(Tail(xs))

RECURSIVE SumSq(_)
SumSq(xs) ==
  IF xs = <<>> THEN 0
  ELSE (IF Head(xs) = NaN THEN 0 ELSE Head(xs) * Head(xs)) + SumSq(Tail(xs))

Count(xs) == Len(SelectSeq(xs, LAMBDA x : x # NaN))

RECURSIVE Concat(_)
Concat(frames) == IF frames = <<>> THEN <<>> ELSE Head(frames) \o Concat(Tail(frames))

(***************************************************************************)
(* load_all_csvs_from_github.  Both scripts rename the CSV columns and     *)
(* parse the dates; app.py also keeps five columns only and drops the rows *)
(* with an empty Date, Price or Volume cell (an empty ISIN cell stays).    *)
(* pd.concat(ignore_index=True) numbers the rows that are left from 0.     *)
(***************************************************************************)
Rename(c) ==
  CASE c = "TradDt" -> "Date"
    [] c = "TckrSymb" -> "Ticker"
    [] c = "ClsPric" -> "Price"
    [] c = "TtlTradgVol" -> "Volume"
    [] OTHER -> c

SelectedColumns == {"Date", "ISIN", "Ticker", "Price", "Volume"}

DropNa(rows) ==
  SelectSeq(rows, LAMBDA r : r.Date # NaN /\ r.Price # NaN /\ r.Volume # NaN)

Indexed(rows) ==
  [j \in 1..Len(rows) |->
     [index |-> j - 1, Date |-> rows[j].Date, ISIN |-> rows[j].ISIN,
      Ticker |-> rows[j].Ticker, Price |-> rows[j].Price, Volume |-> rows[j].Volume]]

LoadAllCsvs(v, raw) ==
  IF v = "app"
  THEN [columns |-> SelectedColumns, rows |-> Indexed(DropNa(raw))]
  ELSE [columns |-> {Rename(c) : c \in RawColumns}, rows |-> Indexed(raw)]

(***************************************************************************)
(* The date range filter: a comparison with NaT is False.                  *)
(***************************************************************************)
\* The filter with the end of the range left out.
DateBeforeEnd(d, s, e) == d # NaN /\ d >= s /\ d < e

DateInRange(d, s, e) == d # NaN /\ d >= s /\ d <= e

FilterByDate(frame, s, e) ==
  [columns |-> frame.columns,
   rows |-> SelectSeq(frame.rows, LAMBDA r : DateInRange(r.Date, s, e))]

Dates(frame) == {r.Date : r \in Range(frame.rows)} \ {NaN}

MinDate(frame) == CHOOSE d \in Dates(frame) : \A x \in Dates(frame) : d <= x

MaxDateOf(frame) == CHOOSE d \in Dates(frame) : \A x \in Dates(frame) : d >= x

(***************************************************************************)
(* df.groupby('ISIN'): the keys in ascending order, NaN keys dropped; each *)
(* group keeps the frame's row order.                                      *)
(***************************************************************************)
RECURSIVE SortedSeq(_)
SortedSeq(S) ==
  IF S = {} THEN <<>>
  ELSE LET m == CHOOSE x \in S : \A y \in S : x <= y
       IN <<m>> \o SortedSeq(S \ {m})

GroupKeys(frame) == SortedSeq({r.ISIN : r \in Range(frame.rows)} \ {NaN})

GroupOf(frame, isin) == SelectSeq(frame.rows, LAMBDA r : r.ISIN = isin)

(***************************************************************************)
(* group.sort_values('Date'): ascending; the default sort is not stable,   *)
(* so rows of equal date come out in an order the build fixes: here either *)
(* in the frame's order ("kept") or in the reverse of it ("reversed").     *)
(***************************************************************************)
RECURSIVE InsertByDate(_, _, _)
InsertByDate(sorted, r, tie) ==
  IF sorted = <<>> THEN <<r>>
  ELSE IF \/ r.Date < Head(sorted).Date
          \/ (tie = "reversed" /\ r.Date = Head(sorted).Date)
       THEN <<r>> \o sorted
       ELSE <<Head(sorted)>> \o InsertByDate(Tail(sorted), r, tie)

RECURSIVE SortAcc(_, _, _)
SortAcc(rows, tie, acc) ==
  IF rows = <<>> THEN acc
  ELSE SortAcc(Tail(rows), tie, InsertByDate(acc, Head(rows), tie))

\* The group loop without its sort_values('Date').
SortValuesOmitted(rows, tie) == rows

SortValues(rows, tie) == SortAcc(rows, tie, <<>>)

(***************************************************************************)
(* The flags of the group loop.  With n the number of prices of the group  *)
(* that are not NaN, S their sum and Q the sum of their squares:           *)
(*   mean = S/n,  std^2 = (n*Q - S^2) / (n*(n-1))   (ddof = 1),            *)
(*   |p - mean| > k*std  <=>  (n*p - S)^2 * (n-1) > k^2 * n * (n*Q - S^2).  *)
(* std is NaN for n < 2, and every comparison with NaN is False.           *)
(*   v > m * (S/n)  <=>  v*n > m*S.                                         *)
(***************************************************************************)
\* Price_Alert written as ~(abs(Price - mean) <= k * std): True where std is NaN.
PriceAlertNotWithin(price, prices, k) ==
  LET n == Count(prices)
      S == Sum(prices)
      Q == SumSq(prices)
  IN ~ /\ price # NaN
       /\ n >= 2
       /\ (n * price - S) * (n * price - S) * (n - 1) <= k * k * n * (n * Q - S * S)

\* Price_Alert with >= for >.
PriceAlertAtBand(price, prices, k) ==
  LET n == Count(prices)
      S == Sum(prices)
      Q == SumSq(prices)
  IN /\ price # NaN
     /\ n >= 2
     /\ (n * price - S) * (n * price - S) * (n - 1) >= k * k * n * (n * Q - S * S)

PriceAlert(price, prices, k) ==
  LET n == Count(prices)
      S == Sum(prices)
      Q == SumSq(prices)
  IN /\ price # NaN
     /\ n >= 2
     /\ (n * price - S) * (n * price - S) * (n - 1) > k * k * n * (n * Q - S * S)

\* Volume_Spike with >= for >.
VolumeSpikeAtMultiple(volume, volumes, m) ==
  LET n == Count(volumes)
      S == Sum(volumes)
  IN /\ volume # NaN
     /\ n >= 1
     /\ volume * n >= m * S

VolumeSpike(volume, volumes, m) ==
  LET n == Count(volumes)
      S == Sum(volumes)
  IN /\ volume # NaN
     /\ n >= 1
     /\ volume * n > m * S

Column(rows, name) ==
  [j \in 1..Len(rows) |-> IF name = "Price" THEN rows[j].Price ELSE rows[j].Volume]

AnalyseGroup(group, k, m, tie) ==
  LET sorted == SortValues(group, tie)
      prices == Column(sorted, "Price")
      volumes == Column(sorted, "Volume")
  IN [j \in 1..Len(sorted) |->
        [index |-> sorted[j].index, Date |-> sorted[j].Date, ISIN |-> sorted[j].ISIN,
         Ticker |-> sorted[j].Ticker, Price |-> sorted[j].Price,
         Volume |-> sorted[j].Volume,
         Price_Alert |-> PriceAlert(sorted[j].Price, prices, k),
         Volume_Spike |-> VolumeSpike(sorted[j].Volume, volumes, m)]]

\* The buzzing test taking a volume spike for an alert too.
IsBuzzingOrSpiking(frame) ==
  \E j \in 1..Len(frame) : frame[j].Price_Alert \/ frame[j].Volume_Spike

IsBuzzing(frame) == \E j \in 1..Len(frame) : frame[j].Price_Alert

RECURSIVE GroupLoop(_, _, _, _, _, _)
GroupLoop(keys, frame, k, m, tie, acc) ==
  IF keys = <<>> THEN acc
  ELSE LET isin == Head(keys)
           group == AnalyseGroup(GroupOf(frame, isin), k, m, tie)
       IN GroupLoop(Tail(keys), frame, k, m, tie,
            [buzzing |-> IF IsBuzzing(group) THEN acc.buzzing \cup {isin} ELSE acc.buzzing,
             alert |-> Append(acc.alert, SelectSeq(group, LAMBDA r : r.Price_Alert)),
             volume |-> Append(acc.volume, SelectSeq(group, LAMBDA r : r.Volume_Spike)),
             frames |-> (isin :> group) @@ acc.frames])

GroupAnalysis(frame, k, m, tie) ==
  GroupLoop(GroupKeys(frame), frame, k, m, tie,
            [buzzing |-> {}, alert |-> <<>>, volume |-> <<>>, frames |-> NoFrames])

(***************************************************************************)
(* isin_map = df[['ISIN','Ticker']].drop_duplicates()                      *)
(*              .set_index('ISIN')['Ticker'].to_dict()                     *)
(* drop_duplicates keeps the first row of every (ISIN, Ticker) pair; the   *)
(* dict is filled in row order, a later row of an ISIN replacing the       *)
(* earlier one.  A NaN ISIN is a key like any other.                       *)
(***************************************************************************)
Pairs(frame) ==
  [j \in 1..Len(frame.rows) |-> <<frame.rows[j].ISIN, frame.rows[j].Ticker>>]

RECURSIVE DropDuplicatesAcc(_, _)
DropDuplicatesAcc(pairs, acc) ==
  IF pairs = <<>> THEN acc
  ELSE DropDuplicatesAcc(Tail(pairs),
         IF Head(pairs) \in Range(acc) THEN acc ELSE Append(acc, Head(pairs)))

\* isin_map built without drop_duplicates().
DropDuplicatesOmitted(pairs) == pairs

DropDuplicates(pairs) == DropDuplicatesAcc(pairs, <<>>)

RECURSIVE ToDict(_, _)
ToDict(pairs, acc) ==
  IF pairs = <<>> THEN acc
  ELSE ToDict(Tail(pairs), (Head(pairs)[1] :> Head(pairs)[2]) @@ acc)

IsinMap(frame) == ToDict(DropDuplicates(Pairs(frame)), NoMap)

(***************************************************************************)
(* The tables of the "Alerts Summary": alert_df['ISIN'].map(isin_map)      *)
(* rewrites the Ticker column of a frame that is not empty.                *)
(***************************************************************************)
MapTicker(rows, map) ==
  [j \in 1..Len(rows) |->
     [rows[j] EXCEPT !.Ticker =
        IF rows[j].ISIN \in DOMAIN map THEN map[rows[j].ISIN] ELSE "NaN"]]

BuzzData(buzzing, map) ==
  LET keys == SortedSeq(buzzing)
  IN [j \in 1..Len(keys) |-> [Ticker |-> map[keys[j]], ISIN |-> keys[j]]]

FirstIsinOf(frame, ticker) ==
  SelectSeq(frame.rows, LAMBDA r : r.Ticker = ticker)[1].ISIN

Summary ==
  [pc |-> pc, error |-> error, buzzing |-> buzzing_isins, alert |-> alert_df,
   volume |-> volume_df, symbols |-> isin_map]

NoSummary ==
  [pc |-> "none", error |-> "none", buzzing |-> {}, alert |-> <<>>,
   volume |-> <<>>, symbols |-> NoMap]

(***************************************************************************)
(* The initial states: a session before its first script run.  The CSV     *)
(* rows and the widget values are the inputs; st.date_input offers the     *)
(* ranges inside [min_date, max_date] of the loaded frame, which therefore *)
(* holds at least one dated row.                                           *)
(***************************************************************************)
HasDateTies(raw) ==
  \E a, b \in 1..Len(raw) : a # b /\ raw[a].ISIN = raw[b].ISIN /\ raw[a].Date = raw[b].Date

InitWith(files, thresholds, multipliers) ==
  /\ variant \in Variants
  /\ raw_csv \in files
  /\ Dates(LoadAllCsvs(variant, raw_csv)) # {}
  /\ tie_order \in (IF HasDateTies(raw_csv) THEN {"kept", "reversed"} ELSE {"kept"})
  /\ std_threshold \in thresholds
  /\ vol_multiplier \in multipliers
  /\ start_date \in MinDate(LoadAllCsvs(variant, raw_csv))..MaxDateOf(LoadAllCsvs(variant, raw_csv))
  /\ end_date \in start_date..MaxDateOf(LoadAllCsvs(variant, raw_csv))
  /\ cache = <<>>
  /\ pc = "start"
  /\ run = 1
  /\ df = EmptyFrame
  /\ buzzing_isins = {}
  /\ alert_df = <<>>
  /\ volume_df = <<>>
  /\ analysis_frames = NoFrames
  /\ isin_map = NoMap
  /\ selected_ticker = "None"
  /\ selected_isin = NaN
  /\ buzz_data = <<>>
  /\ csv = EmptyFrame
  /\ error = "none"
  /\ warnings = {}
  /\ prev = NoSummary

(***************************************************************************)
(* The steps of a script run.                                              *)
(***************************************************************************)
Load ==
  /\ pc = "start"
  /\ cache' = IF cache = <<>> THEN <<LoadAllCsvs(variant, raw_csv)>> ELSE cache
  /\ pc' = "loaded"
  /\ UNCHANGED <<variant, raw_csv, tie_order, run, start_date, end_date, std_threshold,
                 vol_multiplier, df, buzzing_isins, alert_df, volume_df, analysis_frames,
                 isin_map, selected_ticker, selected_isin, buzz_data, csv, error,
                 warnings, prev>>

Analyse ==
  /\ pc = "loaded"
  /\ LET filtered == FilterByDate(cache[1], start_date, end_date)
         loop == GroupAnalysis(filtered, std_threshold, vol_multiplier, tie_order)
     IN /\ df' = filtered
        /\ buzzing_isins' = loop.buzzing
        /\ alert_df' = Concat(loop.alert)
        /\ volume_df' = Concat(loop.volume)
        /\ analysis_frames' = loop.frames
        /\ isin_map' = IsinMap(filtered)
  /\ pc' = "analysed"
  /\ UNCHANGED <<variant, raw_csv, tie_order, cache, run, start_date, end_date,
                 std_threshold, vol_multiplier, selected_ticker, selected_isin,
                 buzz_data, csv, error, warnings, prev>>

SelectStock ==
  /\ pc = "analysed"
  /\ LET options == {r.Ticker : r \in Range(df.rows)}
     IN IF options = {}
        THEN /\ selected_ticker' = "None"
             /\ selected_isin' = NaN
             /\ error' = "IndexError"
             /\ pc' = "error"
        ELSE \E t \in options :
               /\ run = 1 \/ t = selected_ticker
               /\ selected_ticker' = t
               /\ selected_isin' = FirstIsinOf(df, t)
               /\ IF FirstIsinOf(df, t) \in DOMAIN analysis_frames
                  THEN pc' = "selected" /\ error' = error
                  ELSE pc' = "error" /\ error' = "KeyError"
  /\ UNCHANGED <<variant, raw_csv, tie_order, cache, run, start_date, end_date,
                 std_threshold, vol_multiplier, df, buzzing_isins, alert_df, volume_df,
                 analysis_frames, isin_map, buzz_data, csv, warnings, prev>>

Render ==
  /\ pc = "selected"
  /\ IF buzzing_isins \subseteq DOMAIN isin_map
     THEN /\ buzz_data' = BuzzData(buzzing_isins, isin_map)
          /\ alert_df' = MapTicker(alert_df, isin_map)
          /\ volume_df' = MapTicker(volume_df, isin_map)
          /\ pc' = "rendered"
          /\ error' = error
     ELSE /\ pc' = "error"
          /\ error' = "KeyError"
          /\ UNCHANGED <<buzz_data, alert_df, volume_df>>
  /\ UNCHANGED <<variant, raw_csv, tie_order, cache, run, start_date, end_date,
                 std_threshold, vol_multiplier, df, buzzing_isins, analysis_frames,
                 isin_map, selected_ticker, selected_isin, csv, warnings, prev>>

Download ==
  /\ pc = "rendered"
  /\ csv' = df
  /\ pc' = "done"
  /\ UNCHANGED <<variant, raw_csv, tie_order, cache, run, start_date, end_date,
                 std_threshold, vol_multiplier, df, buzzing_isins, alert_df, volume_df,
                 analysis_frames, isin_map, selected_ticker, selected_isin, buzz_data,
                 error, warnings, prev>>

Rerun ==
  /\ pc \in {"done", "error"}
  /\ run < MaxRuns
  /\ run' = run + 1
  /\ prev' = Summary
  /\ pc' = "start"
  /\ df' = EmptyFrame
  /\ buzzing_isins' = {}
  /\ alert_df' = <<>>
  /\ volume_df' = <<>>
  /\ analysis_frames' = NoFrames
  /\ isin_map' = NoMap
  /\ selected_isin' = NaN
  /\ buzz_data' = <<>>
  /\ csv' = EmptyFrame
  /\ error' = "none"
  /\ UNCHANGED <<variant, raw_csv, tie_order, cache, start_date, end_date,
                 std_threshold, vol_multiplier, selected_ticker, warnings>>

Next == Load \/ Analyse \/ SelectStock \/ Render \/ Download \/ Rerun

(***************************************************************************)
(* The CSV files of the checks.                                            *)
(***************************************************************************)
SeqsUpTo(S, n) == UNION {[1..m -> S] : m \in 1..n}

TickerOf(isin) == IF isin = 1 THEN "T1" ELSE "T2"

VolumeByPosition(raw) == [j \in 1..Len(raw) |-> [raw[j] EXCEPT !.Volume = j]]

\* One security: the prices and volumes of the spec's worked examples.
ScenarioBand ==
  << RawRow(1, 1, "T1", 100, 1000), RawRow(2, 1, "T1", 102, 1100),
     RawRow(3, 1, "T1", 98, 900), RawRow(4, 1, "T1", 101, 1050),
     RawRow(5, 1, "T1", 150, 5000) >>

ScenarioDrop ==
  << RawRow(1, 1, "T1", 100, 1000), RawRow(2, 1, "T1", 101, 1100),
     RawRow(3, 1, "T1", 99, 900), RawRow(4, 1, "T1", 100, 1050),
     RawRow(5, 1, "T1", 10, 5000) >>

\* Three securities, their rows interleaved and out of date order: 1 and 2
\* have a price outlier each, 3 has volume spikes only.
ScenarioGroups ==
  << RawRow(4, 3, "T3", 5, 1), RawRow(3, 2, "T2", 2, 1), RawRow(1, 1, "T1", 2, 1),
     RawRow(1, 3, "T3", 5, 0), RawRow(2, 2, "T2", 1, 1), RawRow(3, 1, "T1", 1, 1),
     RawRow(3, 3, "T3", 5, 1), RawRow(1, 2, "T2", 1, 1), RawRow(2, 1, "T1", 2, 1),
     RawRow(2, 3, "T3", 5, 0) >>

\* Trade dates with a day without rows between them.
ScenarioGap == << RawRow(1, 1, "T1", 1, 1), RawRow(3, 1, "T1", 2, 2) >>

\* Rows with empty cells next to complete ones.
ScenarioEmptyCells ==
  << RawRow(1, 1, "T1", 1, 1), RawRow(1, 1, "T1", 1, 1), RawRow(1, 1, "T1", 2, NaN),
     RawRow(1, 2, "T2", 1, 0), RawRow(1, 2, "T2", 1, 0), RawRow(1, 2, "T2", NaN, 1),
     RawRow(1, 2, "T2", 1, NaN), RawRow(1, 3, "T3", NaN, 1), RawRow(1, 3, "T3", 1, 1) >>

Scenarios == {ScenarioBand, ScenarioDrop, ScenarioGroups, ScenarioGap, ScenarioEmptyCells}

PriceFiles ==
  {VolumeByPosition(f) :
     f \in SeqsUpTo({RawRow(1, i, TickerOf(i), p, 1) : i \in ISINs, p \in 1..MaxPrice},
                    MaxRecs)}

VolumeFiles ==
  SeqsUpTo({RawRow(1, i, TickerOf(i), 1, v) : i \in ISINs, v \in 0..MaxVol}, MaxRecs)

DateFiles ==
  {VolumeByPosition(f) :
     f \in SeqsUpTo({RawRow(d, 1, "T1", 1, 1) : d \in 1..MaxDate}, MaxRecs)}

SymbolFiles ==
  SeqsUpTo({RawRow(1, i, t, 1, 1) : i \in ISINs \cup {NaN}, t \in Tickers}, MaxRecs)

MissingFiles ==
  SeqsUpTo({RawRow(d, i, "T1", p, v) :
              d \in {1, NaN}, i \in {1, NaN}, p \in {1, NaN}, v \in {1, NaN}}, MaxRecs)

Thresholds == {MinStdThreshold, DefaultStdThreshold}

Multipliers == {MinVolMultiplier, DefaultVolMultiplier}

InitPrices == InitWith(PriceFiles \cup Scenarios, Thresholds, {MinVolMultiplier})

InitVolumes == InitWith(VolumeFiles \cup Scenarios, {DefaultStdThreshold}, Multipliers)

InitDates == InitWith(DateFiles \cup Scenarios, {MinStdThreshold}, {MinVolMultiplier})

InitSymbols == InitWith(SymbolFiles \cup Scenarios, {DefaultStdThreshold}, {DefaultVolMultiplier})

InitMissing == InitWith(MissingFiles \cup Scenarios, {MinStdThreshold}, {MinVolMultiplier})

Init == InitPrices \/ InitVolumes \/ InitDates \/ InitSymbols \/ InitMissing

Spec == Init /\ [][Next]_vars

SpecPrices == InitPrices /\ [][Next]_vars

SpecVolumes == InitVolumes /\ [][Next]_vars

SpecDates == InitDates /\ [][Next]_vars

SpecSymbols == InitSymbols /\ [][Next]_vars

SpecMissing == InitMissing /\ [][Next]_vars

(***************************************************************************)
(* Properties.                                                             *)
(***************************************************************************)
Analysed == pc \notin {"start", "loaded"}

Loaded == cache[1].rows

InRange(r) == r.Date # NaN /\ start_date <= r.Date /\ r.Date <= end_date

FrameRows == UNION {Range(analysis_frames[i]) : i \in DOMAIN analysis_frames}

Indexes(rows) == {r.index : r \in Range(rows)}

PricesOf(i) == [j \in 1..Len(analysis_frames[i]) |-> analysis_frames[i][j].Price]

VolumesOf(i) == [j \in 1..Len(analysis_frames[i]) |-> analysis_frames[i][j].Volume]

\* n^2 * (n-1) times the squared sample standard deviation of the prices of group i
Dispersion(i) == Count(PricesOf(i)) * SumSq(PricesOf(i)) - Sum(PricesOf(i)) * Sum(PricesOf(i))

SymbolsOf(i) == {r.Ticker : r \in {x \in Range(df.rows) : x.ISIN = i}}

LastRowOf(i) ==
  LET rows == SelectSeq(df.rows, LAMBDA r : r.ISIN = i) IN rows[Len(rows)]

FirstRowWith(i, t) ==
  CHOOSE j \in 1..Len(df.rows) :
    /\ df.rows[j].ISIN = i /\ df.rows[j].Ticker = t
    /\ \A h \in 1..(j - 1) : ~(df.rows[h].ISIN = i /\ df.rows[h].Ticker = t)

GroupThenDateOrder(rows) ==
  \A a, b \in 1..Len(rows) :
    a < b => \/ rows[a].ISIN < rows[b].ISIN
             \/ (rows[a].ISIN = rows[b].ISIN /\ rows[a].Date <= rows[b].Date)

HasEmptyCell(r) == r.ISIN = NaN \/ r.Date = NaN \/ r.Price = NaN \/ r.Volume = NaN

\* C1: after the analysis the buzzing set is exactly the set of the ISINs whose
\* group has a row with Price_Alert true, which is the set of the ISINs of the
\* price-alert rows; a volume spike puts no ISIN into it.
C1_BuzzingIsThePriceAlertIds ==
  Analysed =>
    /\ buzzing_isins =
         {i \in DOMAIN analysis_frames :
            \E j \in 1..Len(analysis_frames[i]) : analysis_frames[i][j].Price_Alert}
    /\ buzzing_isins = {r.ISIN : r \in Range(alert_df)}

\* C1 witness: a run with a buzzing security and a security that has a volume
\* spike and is not buzzing.
C1_Witness ==
  /\ pc = "done"
  /\ buzzing_isins # {}
  /\ \E r \in Range(volume_df) : r.ISIN \notin buzzing_isins

\* C2: a row with an empty ISIN, Date, Price or Volume cell is reported as a
\* per-record defect and takes part in nothing: no row of a group, of the alert
\* lists or of the symbol lookup has an empty cell, and the run goes on.
C2_MissingFieldExcludedAndReported ==
  Analysed =>
    /\ \A j \in 1..Len(raw_csv) : HasEmptyCell(raw_csv[j]) => j \in warnings
    /\ \A r \in FrameRows : ~HasEmptyCell(r)
    /\ \A r \in Range(alert_df) \cup Range(volume_df) : ~HasEmptyCell(r)
    /\ NaN \notin DOMAIN isin_map
    /\ error = "none"

C4_EmptyRangeRaisesNothing ==
  (Analysed /\ df.rows = <<>>) =>
    /\ buzzing_isins = {} /\ alert_df = <<>> /\ volume_df = <<>> /\ isin_map = NoMap
    /\ error = "none"

\* C5: the one row of a single-row group has Price_Alert false for every
\* threshold, its ISIN is not buzzing and it is no row of the price alerts.
C5_SingleRecordGroupNeverAlerts ==
  Analysed =>
    \A i \in DOMAIN analysis_frames :
      Len(analysis_frames[i]) = 1 =>
        /\ ~analysis_frames[i][1].Price_Alert
        /\ i \notin buzzing_isins
        /\ \A r \in Range(alert_df) : r.ISIN # i

\* C5 witness: a run at the lowest threshold over a single-row group with a price.
C5_Witness ==
  /\ pc = "done"
  /\ std_threshold = MinStdThreshold
  /\ \E i \in DOMAIN analysis_frames :
       Len(analysis_frames[i]) = 1 /\ analysis_frames[i][1].Price # NaN

\* C6: the price-alert rows (the volume-spike rows) are exactly the in-range rows
\* flagged in their group, once each and with the cells of the filtered frame,
\* group after group in ascending ISIN order and in ascending date order inside
\* a group; a second run of the session on the same inputs ends with the same
\* lists.  (Rendering rewrites the Ticker cell of a listed row from isin_map.)
C6_FlaggedRecordsInGroupDateOrder ==
  Analysed =>
    /\ Indexes(df.rows) \ {r.index : r \in {x \in Range(df.rows) : x.ISIN = NaN}}
         = {r.index : r \in FrameRows}
    /\ Indexes(alert_df) = {r.index : r \in {x \in FrameRows : x.Price_Alert}}
    /\ Indexes(volume_df) = {r.index : r \in {x \in FrameRows : x.Volume_Spike}}
    /\ \A r \in Range(alert_df) \cup Range(volume_df) :
         \E x \in Range(df.rows) :
           /\ x.index = r.index /\ x.Date = r.Date /\ x.ISIN = r.ISIN
           /\ x.Price = r.Price /\ x.Volume = r.Volume
           /\ pc = "analysed" => x.Ticker = r.Ticker
    /\ Len(alert_df) = Cardinality(Indexes(alert_df))
    /\ Len(volume_df) = Cardinality(Indexes(volume_df))
    /\ GroupThenDateOrder(alert_df)
    /\ GroupThenDateOrder(volume_df)
    /\ (run > 1 /\ pc = prev.pc) =>
         /\ alert_df = prev.alert
         /\ volume_df = prev.volume
         /\ buzzing_isins = prev.buzzing
         /\ isin_map = prev.symbols

\* C6 witness: the end of a second run whose lists hold rows of several groups and
\* several rows of one group, the file giving them in another order.
C6_Witness ==
  /\ pc = "done"
  /\ run > 1
  /\ \E a, b \in 1..Len(alert_df) : alert_df[a].ISIN < alert_df[b].ISIN
  /\ \E a, b \in 1..Len(volume_df) :
       /\ a < b
       /\ volume_df[a].ISIN = volume_df[b].ISIN
       /\ volume_df[a].index > volume_df[b].index

\* C7: a row is a volume spike exactly when its volume is strictly above the
\* multiplier times the mean volume of its group, the row included, compared
\* without a division: volume * n > m * sum.  The volumes 1000, 1100, 900,
\* 1050, 5000 with multiplier 3 give no spike.
C7_VolumeSpikeStrictlyAboveMultiple ==
  Analysed =>
    /\ \A i \in DOMAIN analysis_frames :
         \A j \in 1..Len(analysis_frames[i]) :
           analysis_frames[i][j].Volume_Spike <=>
             /\ analysis_frames[i][j].Volume # NaN
             /\ analysis_frames[i][j].Volume * Count(VolumesOf(i))
                  > vol_multiplier * Sum(VolumesOf(i))
    /\ (/\ raw_csv = ScenarioBand
        /\ vol_multiplier = DefaultVolMultiplier
        /\ start_date = 1 /\ end_date = 5) => volume_df = <<>>

\* C7 witness: a row whose volume is above 0 and equal to the multiplier times
\* the mean of its group, and which is not flagged.
C7_Witness ==
  /\ pc = "done"
  /\ \E i \in DOMAIN analysis_frames :
       \E j \in 1..Len(analysis_frames[i]) :
         /\ analysis_frames[i][j].Volume > 0
         /\ analysis_frames[i][j].Volume * Count(VolumesOf(i))
              = vol_multiplier * Sum(VolumesOf(i))
         /\ ~analysis_frames[i][j].Volume_Spike

\* C8: in a group of at least two prices whose sample standard deviation is 0,
\* a row with a price is flagged exactly when its price is not the mean.
C8_ZeroDispersionFlagsAnyDeviation ==
  Analysed =>
    \A i \in DOMAIN analysis_frames :
      (Count(PricesOf(i)) >= 2 /\ Dispersion(i) = 0) =>
        \A j \in 1..Len(analysis_frames[i]) :
          analysis_frames[i][j].Price # NaN =>
            (analysis_frames[i][j].Price_Alert <=>
               analysis_frames[i][j].Price * Count(PricesOf(i)) # Sum(PricesOf(i)))

\* C8 witness: a run over a group of at least two equal prices.
C8_Witness ==
  /\ pc = "done"
  /\ \E i \in DOMAIN analysis_frames :
       Count(PricesOf(i)) >= 2 /\ Dispersion(i) = 0

\* C9: the filtered frame is, in order, the loaded rows with start_date <= Date
\* <= end_date; the groups and the symbol lookup are built from these rows only;
\* the download is the filtered frame with the loaded frame's columns, none of
\* the analysis columns among them.
C9_RangeFilterInclusiveExportUnmodified ==
  Analysed =>
    /\ df.rows = SelectSeq(Loaded, InRange)
    /\ \A r \in FrameRows : InRange(r)
    /\ DOMAIN isin_map = {r.ISIN : r \in {x \in Range(Loaded) : InRange(x)}}
    /\ pc = "done" =>
         /\ csv.rows = SelectSeq(Loaded, InRange)
         /\ csv.columns = cache[1].columns
         /\ csv.columns \cap DerivedColumns = {}

\* C9 witness: a finished run whose range has rows on its first day, rows on its
\* last day and a loaded row outside it.
C9_Witness ==
  /\ pc = "done"
  /\ start_date < end_date
  /\ \E r \in Range(csv.rows) : r.Date = start_date
  /\ \E r \in Range(csv.rows) : r.Date = end_date
  /\ \E r \in Range(Loaded) : ~InRange(r)

\* C10: with a filtered frame that is not empty, every buzzing ISIN and every
\* ISIN of an alert or spike row is a key of isin_map, and the ISIN of the
\* selected stock is a key of analysis_frames: no lookup raises KeyError.
C10_LookupsNeverMissAKey ==
  (Analysed /\ df.rows # <<>>) =>
    /\ buzzing_isins \subseteq DOMAIN isin_map
    /\ \A r \in Range(alert_df) \cup Range(volume_df) : r.ISIN \in DOMAIN isin_map
    /\ pc \notin {"analysed"} => selected_isin \in DOMAIN analysis_frames
    /\ error # "KeyError"

====
